---- MODULE Spec2Model ----
(***************************************************************************)
(* Model of the emits-io/configuration package: the Configuration entity   *)
(* model, Document I/O (Load / Write), the Validator and the Lookup        *)
(* Services (FindTask / FindScript).                                       *)
(*                                                                         *)
(* Conventions                                                             *)
(*   - a Go pointer is a sequence of length 0 (nil) or 1 (the pointee);    *)
(*   - a Go slice is a sequence; where the code tells a nil slice from an  *)
(*     empty one (Path.Include) the slice is wrapped like a pointer;       *)
(*   - a Go error value is a record: the format string that built it       *)
(*     (kind, written without its backquotes) and the values substituted   *)
(*     into it (name, idx, ref).                                           *)
(***************************************************************************)
EXTENDS Integers, Sequences, FiniteSets, TLC

(***************************************************************************)
(* Bounds of the explored input space.                                     *)
(***************************************************************************)
MaxInclude == 2
MaxExclude == 1
MaxPlugins == 1
MaxRegex   == 1
MaxRefs    == 3
MaxTasks   == 2

(***************************************************************************)
(* Pointers.                                                               *)
(***************************************************************************)
Nil == << >>
Ptr(x) == << x >>
Deref(p) == p[1]

SeqsUpTo(S, n) == UNION { [1..k -> S] : k \in 0..n }

ConfigFile == "emits.json"

(***************************************************************************)
(* Go library functions used by the package.                               *)
(***************************************************************************)
\* strings.TrimSpace on the pattern alphabet of the model
TrimSpace(s) == IF s \in {"", " ", "  "} THEN ""
                ELSE IF s = " *" THEN "*" ELSE s

\* strings.Join(elems, sep)
RECURSIVE Join(_, _)
Join(elems, sep) ==
    IF Len(elems) = 0 THEN ""
    ELSE IF Len(elems) = 1 THEN elems[1]
    ELSE elems[1] \o sep \o Join(Tail(elems), sep)

\* fmt.Errorf(format, args...): one error value
Errorf(kind, name, idx, ref) == [kind |-> kind, name |-> name, idx |-> idx, ref |-> ref]
NoIdx == -1
NoRef == ""

\* the format strings of the package's errors
ErrNoTask == "%s must contain at least one task definition"
ErrNoFile == "%s must contain at least one file definition"
ErrTaskName == "%s task missing name definition"
ErrTaskInclude == "%s task missing path include definition"
ErrIncludeEmpty == "%s task path include definition at index %v is empty"
ErrExcludeEmpty == "%s task path exclude definition at index %v is empty"
ErrTaskPath == "%s task missing path definition"
ErrParse == "file %s type missing parse definition"
ErrParseComment == "file %s type missing parse comment definition"
ErrBlockStart == "file %s type missing parse block comment start definition"
ErrBlockEnd == "file %s type missing parse block comment end definition"
ErrPluginPath == "%s file modify plugin path definition at index %v is empty"
ErrRegexFind == "%s file modify find definition at index %v is empty"
ErrFileType == "%s file missing type definition"
ErrDuplicateTask == "%s script referencing duplicate %s task definition"
ErrUnknownTask == "%s script referencing unknown %s task definition"
ErrScriptName == "%s script missing name definition"
ErrScriptNoTask == "%s script must contain at least one task definition"

\* fmt.Sprintf("%v", &receiver): the address of the method's receiver
\* variable, a token the runtime picks
Placeholders == {"0xc000012028", "0xc000012030"}

(***************************************************************************)
(* Entity model.                                                           *)
(***************************************************************************)
Task(name, path) == [Name |-> name, Path |-> path]
Path(include, exclude) == [Include |-> include, Exclude |-> exclude]
Script(name, task) == [Name |-> name, Task |-> task]
File(type, parse, modify) == [Type |-> type, Parse |-> parse, Modify |-> modify]
Parse(comment, source) == [Comment |-> comment, Source |-> source]
Comment(line, block) == [Line |-> line, Block |-> block]
CommentBlock(start, end) == [Start |-> start, End |-> end]
Modify(plugin, regex) == [Plugin |-> plugin, Regex |-> regex]
Plugin(path) == [Path |-> path]
RegularExpression(find, replace) == [Find |-> find, Replace |-> replace]
Configuration(name, task, script, file) ==
    [Name |-> name, Task |-> task, Script |-> script, File |-> file]

\* &configuration.Configuration{}
ZeroConfiguration == Configuration("", << >>, << >>, << >>)

(***************************************************************************)
(* Lookup Services.  NotFound is the nil result, Panicked the nil-pointer  *)
(* dereference of `t.Name` on a nil entry; otherwise the position of the   *)
(* entry whose pointer is returned.                                        *)
(***************************************************************************)
NotFound == 0
Panicked == -1

RECURSIVE FindFrom(_, _, _)
FindFrom(entries, name, i) ==
    IF i > Len(entries) THEN NotFound
    ELSE IF entries[i] = Nil THEN Panicked
    ELSE IF Deref(entries[i]).Name = name THEN i
    ELSE FindFrom(entries, name, i + 1)

FindTask(c, name) == FindFrom(c.Task, name, 1)

FindScript(c, name) == FindFrom(c.Script, name, 1)

(***************************************************************************)
(* Validator.  Each entity validation returns the (possibly renamed)       *)
(* entity and the errors it appended.                                      *)
(***************************************************************************)
\* a variant that reports the missing tasks only when the files are missing too
ValidateTaskDefinitionExists_Dependent(c) ==
    IF Len(c.Task) = 0 /\ Len(c.File) = 0
    THEN << Errorf(ErrNoTask, ConfigFile, NoIdx, NoRef) >>
    ELSE << >>

ValidateTaskDefinitionExists(c) ==
    IF Len(c.Task) = 0
    THEN << Errorf(ErrNoTask, ConfigFile, NoIdx, NoRef) >>
    ELSE << >>

ValidateFileDefinitionExists(c) ==
    IF Len(c.File) = 0
    THEN << Errorf(ErrNoFile, ConfigFile, NoIdx, NoRef) >>
    ELSE << >>

\* the errors of a range loop over pattern entries that reports each blank
\* entry; idx is the 0-based index of the Go loop
RECURSIVE EmptyEntryErrors(_, _, _, _)
EmptyEntryErrors(entries, i, kind, name) ==
    IF i > Len(entries) THEN << >>
    ELSE (IF Len(TrimSpace(entries[i])) = 0
          THEN << Errorf(kind, name, i - 1, NoRef) >> ELSE << >>)
         \o EmptyEntryErrors(entries, i + 1, kind, name)

\* a variant that puts the placeholder in the error only and leaves the
\* Task's Name empty
TaskValidate_NoAssign(t, ph) ==
    LET name == IF Len(t.Name) = 0 THEN ph ELSE t.Name
        e1 == IF Len(t.Name) = 0
              THEN << Errorf(ErrTaskName, name, NoIdx, NoRef) >>
              ELSE << >>
        e2 == IF t.Path # Nil
              THEN LET p == Deref(t.Path) IN
                   (IF p.Include = Nil
                    THEN << Errorf(ErrTaskInclude, name, NoIdx, NoRef) >>
                    ELSE << >>)
                   \o EmptyEntryErrors(IF p.Include = Nil THEN << >> ELSE Deref(p.Include), 1,
                          ErrIncludeEmpty, name)
                   \o EmptyEntryErrors(p.Exclude, 1,
                          ErrExcludeEmpty, name)
              ELSE << Errorf(ErrTaskPath, name, NoIdx, NoRef) >>
    IN [entity |-> t, errors |-> e1 \o e2, panic |-> FALSE]

\* (t *Task) Validate(), t non-nil; ph is the value of fmt.Sprintf("%v", &t)
TaskValidate(t, ph) ==
    LET name == IF Len(t.Name) = 0 THEN ph ELSE t.Name
        e1 == IF Len(t.Name) = 0
              THEN << Errorf(ErrTaskName, name, NoIdx, NoRef) >>
              ELSE << >>
        e2 == IF t.Path # Nil
              THEN LET p == Deref(t.Path) IN
                   (IF p.Include = Nil
                    THEN << Errorf(ErrTaskInclude, name, NoIdx, NoRef) >>
                    ELSE << >>)
                   \o EmptyEntryErrors(IF p.Include = Nil THEN << >> ELSE Deref(p.Include), 1,
                          ErrIncludeEmpty, name)
                   \o EmptyEntryErrors(p.Exclude, 1,
                          ErrExcludeEmpty, name)
              ELSE << Errorf(ErrTaskPath, name, NoIdx, NoRef) >>
    IN [entity |-> [t EXCEPT !.Name = name], errors |-> e1 \o e2, panic |-> FALSE]


\* a variant that wants a block marker even when a line marker is given
ParseValidate_BlockRequired(p, f) ==
    LET type == Join(f.Type, ",") IN
    IF p = Nil
    THEN << Errorf(ErrParse, type, NoIdx, NoRef) >>
    ELSE LET c == Deref(p).Comment IN
         IF c = Nil \/ (c # Nil /\ (Len(Deref(c).Line) = 0 \/ Deref(c).Block = Nil))
         THEN << Errorf(ErrParseComment, type, NoIdx, NoRef) >>
         ELSE IF Deref(c).Block # Nil
         THEN (IF Len(Deref(Deref(c).Block).Start) = 0
               THEN << Errorf(ErrBlockStart, type, NoIdx, NoRef) >> ELSE << >>)
              \o
              (IF Len(Deref(Deref(c).Block).End) = 0
               THEN << Errorf(ErrBlockEnd, type, NoIdx, NoRef) >> ELSE << >>)
         ELSE << >>

\* a variant that checks the block end only when the block start is given
ParseValidate_EndAfterStart(p, f) ==
    LET type == Join(f.Type, ",") IN
    IF p = Nil
    THEN << Errorf(ErrParse, type, NoIdx, NoRef) >>
    ELSE LET c == Deref(p).Comment IN
         IF c = Nil \/ (c # Nil /\ Len(Deref(c).Line) = 0 /\ Deref(c).Block = Nil)
         THEN << Errorf(ErrParseComment, type, NoIdx, NoRef) >>
         ELSE IF Deref(c).Block # Nil
         THEN IF Len(Deref(Deref(c).Block).Start) = 0
              THEN << Errorf(ErrBlockStart, type, NoIdx, NoRef) >>
              ELSE IF Len(Deref(Deref(c).Block).End) = 0
              THEN << Errorf(ErrBlockEnd, type, NoIdx, NoRef) >>
              ELSE << >>
         ELSE << >>

\* (p *Parse) Validate(f *File): p is the pointer f.Parse, possibly nil
ParseValidate(p, f) ==
    LET type == Join(f.Type, ",") IN
    IF p = Nil
    THEN << Errorf(ErrParse, type, NoIdx, NoRef) >>
    ELSE LET c == Deref(p).Comment IN
         IF c = Nil \/ (c # Nil /\ Len(Deref(c).Line) = 0 /\ Deref(c).Block = Nil)
         THEN << Errorf(ErrParseComment, type, NoIdx, NoRef) >>
         ELSE IF Deref(c).Block # Nil
         THEN (IF Len(Deref(Deref(c).Block).Start) = 0
               THEN << Errorf(ErrBlockStart, type, NoIdx, NoRef) >>
               ELSE << >>)
              \o
              (IF Len(Deref(Deref(c).Block).End) = 0
               THEN << Errorf(ErrBlockEnd, type, NoIdx, NoRef) >>
               ELSE << >>)
         ELSE << >>

\* for i, plugin := range f.Modify.Plugin: reading plugin.Path of a nil entry
\* is a nil-pointer dereference
RECURSIVE PluginErrors(_, _, _)
PluginErrors(plugins, i, type) ==
    IF i > Len(plugins) THEN [errors |-> << >>, panic |-> FALSE]
    ELSE IF plugins[i] = Nil THEN [errors |-> << >>, panic |-> TRUE]
    ELSE LET rest == PluginErrors(plugins, i + 1, type) IN
         [errors |-> (IF Len(Deref(plugins[i]).Path) = 0
                      THEN << Errorf(ErrPluginPath, type, i - 1, NoRef) >>
                      ELSE << >>) \o rest.errors,
          panic |-> rest.panic]

\* for i, regex := range f.Modify.Regex
RECURSIVE RegexErrors(_, _, _)
RegexErrors(regexes, i, type) ==
    IF i > Len(regexes) THEN [errors |-> << >>, panic |-> FALSE]
    ELSE IF regexes[i] = Nil THEN [errors |-> << >>, panic |-> TRUE]
    ELSE LET rest == RegexErrors(regexes, i + 1, type) IN
         [errors |-> (IF Len(Deref(regexes[i]).Find) = 0
                      THEN << Errorf(ErrRegexFind, type, i - 1, NoRef) >>
                      ELSE << >>) \o rest.errors,
          panic |-> rest.panic]

\* (f *File) Validate(), f non-nil; ph is the value of fmt.Sprintf("%v", &f)
FileValidate(f, ph) ==
    LET g  == IF Len(f.Type) = 0 THEN [f EXCEPT !.Type = << ph >>] ELSE f
        type == Join(g.Type, ",")
        e1 == IF Len(f.Type) = 0
              THEN << Errorf(ErrFileType, type, NoIdx, NoRef) >>
              ELSE << >>
        e2 == ParseValidate(g.Parse, g)
        pl == IF g.Modify # Nil THEN PluginErrors(Deref(g.Modify).Plugin, 1, type)
              ELSE [errors |-> << >>, panic |-> FALSE]
        re == IF g.Modify # Nil /\ ~pl.panic THEN RegexErrors(Deref(g.Modify).Regex, 1, type)
              ELSE [errors |-> << >>, panic |-> FALSE]
    IN [entity |-> g, errors |-> e1 \o e2 \o pl.errors \o re.errors,
        panic |-> pl.panic \/ re.panic]

\* a variant that compares a reference with the last seen one only
TaskSeen_LastOnly(seenTask, task) == Len(seenTask) > 0 /\ seenTask[Len(seenTask)] = task

\* the inner loop over seenTask: was this reference seen before
TaskSeen(seenTask, task) == \E k \in 1..Len(seenTask) : seenTask[k] = task

\* a variant that looks a reference up only when it is no duplicate
ReferenceCheck_ElseIf(name, task, taskSeen, found) ==
    IF taskSeen THEN << Errorf(ErrDuplicateTask, name, NoIdx, task) >>
    ELSE IF found = NotFound THEN << Errorf(ErrUnknownTask, name, NoIdx, task) >>
    ELSE << >>

\* the two checks of one reference: the duplicate error and, independently,
\* the unknown error
ReferenceCheck(name, task, taskSeen, found) ==
    (IF taskSeen THEN << Errorf(ErrDuplicateTask, name, NoIdx, task) >> ELSE << >>)
    \o (IF found = NotFound THEN << Errorf(ErrUnknownTask, name, NoIdx, task) >> ELSE << >>)

\* the loop of Script.Validate over s.Task
RECURSIVE ReferenceErrors(_, _, _, _, _)
ReferenceErrors(refs, i, seenTask, c, name) ==
    IF i > Len(refs) THEN [errors |-> << >>, panic |-> FALSE]
    ELSE LET task == refs[i]
             taskSeen == TaskSeen(seenTask, task)
             seen == IF taskSeen THEN seenTask ELSE Append(seenTask, task)
             found == FindTask(c, task)
         IN IF found = Panicked THEN [errors |-> << >>, panic |-> TRUE]
            ELSE LET rest == ReferenceErrors(refs, i + 1, seen, c, name) IN
                 [errors |-> ReferenceCheck(name, task, taskSeen, found) \o rest.errors,
                  panic |-> rest.panic]

\* (s *Script) Validate(c *Configuration), s non-nil; ph is fmt.Sprintf("%v", &s)
ScriptValidate(s, c, ph) ==
    LET name == IF Len(s.Name) = 0 THEN ph ELSE s.Name
        e1 == IF Len(s.Name) = 0
              THEN << Errorf(ErrScriptName, name, NoIdx, NoRef) >>
              ELSE << >>
        e2 == IF Len(s.Task) = 0
              THEN [errors |-> << Errorf(ErrScriptNoTask, name, NoIdx, NoRef) >>,
                    panic |-> FALSE]
              ELSE ReferenceErrors(s.Task, 1, << >>, c, name)
    IN [entity |-> [s EXCEPT !.Name = name], errors |-> e1 \o e2.errors, panic |-> e2.panic]

\* the placeholder drawn for entry i, if the entry is anonymous
At(ph, i) == IF i \in DOMAIN ph THEN ph[i] ELSE ""

\* for _, task := range c.Task { task.Validate() }: a nil entry is a
\* nil-pointer dereference in Task.Validate; renames made before it persist
RECURSIVE ValidateTasks(_, _, _)
ValidateTasks(tasks, i, ph) ==
    IF i > Len(tasks) THEN [entries |-> tasks, errors |-> << >>, panic |-> FALSE]
    ELSE IF tasks[i] = Nil THEN [entries |-> tasks, errors |-> << >>, panic |-> TRUE]
    ELSE LET r == TaskValidate(Deref(tasks[i]), At(ph, i))
             rest == ValidateTasks([tasks EXCEPT ![i] = Ptr(r.entity)], i + 1, ph)
         IN [entries |-> rest.entries, errors |-> r.errors \o rest.errors, panic |-> rest.panic]

\* for _, file := range c.File { file.Validate() }
RECURSIVE ValidateFiles(_, _, _)
ValidateFiles(files, i, ph) ==
    IF i > Len(files) THEN [entries |-> files, errors |-> << >>, panic |-> FALSE]
    ELSE IF files[i] = Nil THEN [entries |-> files, errors |-> << >>, panic |-> TRUE]
    ELSE LET r == FileValidate(Deref(files[i]), At(ph, i))
             upd == [files EXCEPT ![i] = Ptr(r.entity)]
         IN IF r.panic THEN [entries |-> upd, errors |-> r.errors, panic |-> TRUE]
            ELSE LET rest == ValidateFiles(upd, i + 1, ph) IN
                 [entries |-> rest.entries, errors |-> r.errors \o rest.errors, panic |-> rest.panic]

\* for _, script := range c.Script { script.Validate(c) }
RECURSIVE ValidateScripts(_, _, _, _)
ValidateScripts(scripts, i, c, ph) ==
    IF i > Len(scripts) THEN [entries |-> scripts, errors |-> << >>, panic |-> FALSE]
    ELSE IF scripts[i] = Nil THEN [entries |-> scripts, errors |-> << >>, panic |-> TRUE]
    ELSE LET r == ScriptValidate(Deref(scripts[i]), c, At(ph, i))
             upd == [scripts EXCEPT ![i] = Ptr(r.entity)]
         IN IF r.panic THEN [entries |-> upd, errors |-> r.errors, panic |-> TRUE]
            ELSE LET rest == ValidateScripts(upd, i + 1, c, ph) IN
                 [entries |-> rest.entries, errors |-> r.errors \o rest.errors, panic |-> rest.panic]

\* (c *Configuration) Validate(): the configuration as the call leaves it,
\* the returned errors, and whether the call panicked instead of returning
ConfigurationValidate(c, tph, fph, sph) ==
    LET e1 == ValidateTaskDefinitionExists(c)
        e2 == ValidateFileDefinitionExists(c)
        t  == ValidateTasks(c.Task, 1, tph)
        c1 == [c EXCEPT !.Task = t.entries]
        f  == IF t.panic THEN [entries |-> c.File, errors |-> << >>, panic |-> FALSE]
              ELSE ValidateFiles(c.File, 1, fph)
        c2 == [c1 EXCEPT !.File = f.entries]
        s  == IF t.panic \/ f.panic THEN [entries |-> c.Script, errors |-> << >>, panic |-> FALSE]
              ELSE ValidateScripts(c.Script, 1, c2, sph)
        c3 == [c2 EXCEPT !.Script = s.entries]
        panic == t.panic \/ f.panic \/ s.panic
    IN [cfg |-> c3,
        errors |-> IF panic THEN << >> ELSE e1 \o e2 \o t.errors \o f.errors \o s.errors,
        panic |-> panic]

(***************************************************************************)
(* Document I/O.  A document is the decoded form of the JSON text: absent  *)
(* and null fields are Nil, "include": [] is Ptr(<< >>).                   *)
(***************************************************************************)
\* json.MarshalIndent under the omitempty tags: an empty Include is omitted
MarshalPath(p) == [p EXCEPT !.Include = IF p.Include = Ptr(<< >>) THEN Nil ELSE p.Include]

MarshalTask(t) == IF t = Nil THEN Nil
                  ELSE IF Deref(t).Path = Nil THEN t
                  ELSE Ptr([Deref(t) EXCEPT !.Path = Ptr(MarshalPath(Deref(Deref(t).Path)))])

MarshalIndent(c) == [c EXCEPT !.Task = [i \in DOMAIN c.Task |-> MarshalTask(c.Task[i])]]

\* json.Unmarshal of a well-formed document into a zero Configuration
Unmarshal(content) ==
    Configuration(content.Name, content.Task, content.Script, content.File)

(***************************************************************************)
(* The explored documents.                                                 *)
(***************************************************************************)
Names    == {"", "a", "A"}
Patterns == {"", " ", "*"}
Refs     == {"", "a", "no"}

GoodPath   == Path(Ptr(<< "*" >>), << >>)
GoodTask(n) == Task(n, Ptr(GoodPath))
GoodParse  == Parse(Ptr(Comment("//", Nil)), TRUE)
GoodFile   == File(<< "go" >>, Ptr(GoodParse), Nil)

PathVals == { Path(i, e) :
                i \in {Nil} \cup { Ptr(x) : x \in SeqsUpTo(Patterns, MaxInclude) },
                e \in SeqsUpTo(Patterns, MaxExclude) }
TaskVals == {Nil} \cup { Ptr(Task(n, p)) :
                n \in {"", "a"}, p \in {Nil} \cup { Ptr(x) : x \in PathVals } }

CommentVals == {Nil} \cup { Ptr(Comment(l, b)) :
                l \in {"", "//"},
                b \in {Nil} \cup { Ptr(CommentBlock(st, en)) : st \in {"", "/*"}, en \in {"", "*/"} } }
ParseVals == {Nil} \cup { Ptr(Parse(c, TRUE)) : c \in CommentVals }
ModifyVals == {Nil} \cup { Ptr(Modify(pl, re)) :
                pl \in SeqsUpTo({Nil, Ptr(Plugin("")), Ptr(Plugin("./foo.js"))}, MaxPlugins),
                re \in SeqsUpTo({Nil, Ptr(RegularExpression("", "")),
                                 Ptr(RegularExpression("foo", "bar"))}, MaxRegex) }
FileVals == {Nil} \cup { Ptr(File(ty, pa, mo)) :
                ty \in {<< >>, << "go" >>, << "go", "md" >>}, pa \in ParseVals, mo \in ModifyVals }

ScriptVals == {Nil} \cup { Ptr(Script(n, r)) : n \in {"", "s"}, r \in SeqsUpTo(Refs, MaxRefs) }

\* the task lists a script is resolved against
TaskLists == { << >>,
               << Ptr(GoodTask("a")) >>,
               << Ptr(GoodTask("A")), Ptr(GoodTask("a")) >>,
               << Ptr(GoodTask("")) >>,
               << Ptr(GoodTask("a")), Ptr(Task("a", Nil)) >> }

\* whole documents with several tasks, files and scripts
TaskSmall   == { Nil, Ptr(GoodTask("a")), Ptr(Task("", Nil)) }
FileLists   == { << >>, << Nil >>, << Ptr(GoodFile) >>,
                 << Ptr(GoodFile), Nil >>, << Ptr(GoodFile), Ptr(File(<< >>, Nil, Nil)) >> }
ScriptLists == { << >>, << Nil >>, << Ptr(Script("s", << "a" >>)) >>,
                 << Ptr(Script("", << "a" >>)), Nil >>,
                 << Ptr(Script("", << "a" >>)), Ptr(Script("", << >>)) >> }

Documents ==
    { Configuration("emits", << t >>, << >>, << Ptr(GoodFile) >>) : t \in TaskVals }
    \cup
    { Configuration("emits", << Ptr(GoodTask("a")) >>, << >>, << f >>) : f \in FileVals }
    \cup
    { Configuration("emits", ts, << s >>, << Ptr(GoodFile) >>) : ts \in TaskLists, s \in ScriptVals }
    \cup
    { Configuration(n, ts, ss, fs) : n \in {"emits"},
        ts \in SeqsUpTo(TaskSmall, MaxTasks),
        ss \in ScriptLists,
        fs \in FileLists }

(***************************************************************************)
(* State: the document on disk, the Configuration instance the caller      *)
(* holds, and what the last call returned.                                 *)
(***************************************************************************)
VARIABLES doc, cfg, ret

vars == << doc, cfg, ret >>

Returned(op, arg, err, errors, found) ==
    [op |-> op, arg |-> arg, err |-> err, errors |-> errors, found |-> found]

OnDisk(status, content) == [status |-> status, content |-> content]

Init ==
    /\ doc \in { OnDisk("ok", d) : d \in Documents }
               \cup { OnDisk(st, ZeroConfiguration) : st \in {"missing", "unreadable", "malformed"} }
    /\ cfg = ZeroConfiguration
    /\ ret = Returned("none", "", "nil", << >>, NotFound)

\* c := &Configuration{}; err := c.Load()
Load ==
    LET openErr == IF doc.status = "missing" THEN "io" ELSE "nil"
        readErr == IF doc.status = "unreadable" THEN "io" ELSE "nil"
        unmarshalErr == IF doc.status = "malformed" THEN "parse" ELSE "nil"
        err == readErr
    IN /\ IF openErr # "nil"
          THEN cfg' = ZeroConfiguration /\ ret' = Returned("Load", "", openErr, << >>, NotFound)
          ELSE IF readErr # "nil"
          THEN cfg' = ZeroConfiguration /\ ret' = Returned("Load", "", readErr, << >>, NotFound)
          ELSE IF unmarshalErr # "nil"
          THEN cfg' = ZeroConfiguration /\ ret' = Returned("Load", "", err, << >>, NotFound)
          ELSE cfg' = Unmarshal(doc.content) /\ ret' = Returned("Load", "", "nil", << >>, NotFound)
       /\ UNCHANGED doc

\* err := c.Write(); os.WriteFile may fail before or after truncating the file
Write ==
    \E outcome \in {"written", "untouched", "truncated"} :
        /\ doc' = CASE outcome = "written"   -> OnDisk("ok", MarshalIndent(cfg))
                    [] outcome = "untouched" -> doc
                    [] outcome = "truncated" -> OnDisk("malformed", ZeroConfiguration)
        /\ ret' = Returned("Write", "", IF outcome = "written" THEN "nil" ELSE "io", << >>, NotFound)
        /\ UNCHANGED cfg

\* the entries of a sequence that Validate gives a placeholder name
Anonymous(entries) ==
    { i \in DOMAIN entries : entries[i] # Nil /\ Len(Deref(entries[i]).Name) = 0 }
Untyped(files) ==
    { i \in DOMAIN files : files[i] # Nil /\ Len(Deref(files[i]).Type) = 0 }

\* errs := c.Validate()
Validate ==
    \E tph \in [Anonymous(cfg.Task) -> Placeholders],
       fph \in [Untyped(cfg.File) -> Placeholders],
       sph \in [Anonymous(cfg.Script) -> Placeholders] :
        LET r == ConfigurationValidate(cfg, tph, fph, sph) IN
        /\ cfg' = r.cfg
        /\ ret' = Returned("Validate", "", IF r.panic THEN "panic" ELSE "nil", r.errors, NotFound)
        /\ UNCHANGED doc

\* t := c.FindTask(name)
LookupTask ==
    \E name \in Names :
        LET found == FindTask(cfg, name) IN
        /\ ret' = Returned("FindTask", name, IF found = Panicked THEN "panic" ELSE "nil", << >>, found)
        /\ UNCHANGED << doc, cfg >>

\* s := c.FindScript(name)
LookupScript ==
    \E name \in {"s", "S"} :
        LET found == FindScript(cfg, name) IN
        /\ ret' = Returned("FindScript", name, IF found = Panicked THEN "panic" ELSE "nil", << >>, found)
        /\ UNCHANGED << doc, cfg >>

Next == Load \/ Write \/ Validate \/ LookupTask \/ LookupScript

Spec == Init /\ [][Next]_vars

(***************************************************************************)
(* Properties.                                                             *)
(***************************************************************************)
\* what the last call returned, when it was a Validate call that returned
ValidateReturned == ret.op = "Validate" /\ ret.err = "nil"

HasError(errors, e) == \E k \in DOMAIN errors : errors[k] = e

CountError(errors, e) == Cardinality({ k \in DOMAIN errors : errors[k] = e })

CountKind(errors, kind) == Cardinality({ k \in DOMAIN errors : errors[k].kind = kind })

\* C1: Validate never aborts: on every Configuration that Load can produce,
\* also one with a null entry in its Task, File, Script, Plugin or Regex
\* sequence, a Validate call returns an error sequence and does not panic.
C1_ValidateNeverAborts == ret.op = "Validate" => ret.err # "panic"

\* C2: Validate is idempotent: a Validate call that directly follows a
\* Validate call on the same instance returns the same errors, in number and
\* content, as the first.
C2_ValidateIdempotent ==
    [][ (ret.op = "Validate" /\ ret'.op = "Validate") => ret'.errors = ret.errors ]_vars

\* C3: Validate's result contains the "must contain at least one task
\* definition" error exactly when the Task sequence is empty at the call, and
\* the "must contain at least one file definition" error exactly when the
\* File sequence is empty, each whatever the other checks find; so no
\* Configuration with zero Tasks or zero Files gets an empty result.
C3_TopLevelChecks ==
    [][ (ret'.op = "Validate" /\ ret'.err = "nil") =>
          /\ HasError(ret'.errors, Errorf(ErrNoTask, ConfigFile, NoIdx, NoRef))
                <=> (Len(cfg.Task) = 0)
          /\ HasError(ret'.errors, Errorf(ErrNoFile, ConfigFile, NoIdx, NoRef))
                <=> (Len(cfg.File) = 0)
          /\ (Len(cfg.Task) = 0 \/ Len(cfg.File) = 0) => ret'.errors # << >> ]_vars

\* C3's case: Validate returned for a Configuration without tasks that has
\* files and scripts with problems of their own
C3_Witness ==
    /\ ValidateReturned
    /\ Len(cfg.Task) = 0 /\ Len(cfg.File) = 2 /\ Len(cfg.Script) = 2
    /\ HasError(ret.errors, Errorf(ErrNoTask, ConfigFile, NoIdx, NoRef))
    /\ ~HasError(ret.errors, Errorf(ErrNoFile, ConfigFile, NoIdx, NoRef))
    /\ Len(ret.errors) > 2

\* an entry that is empty or all whitespace
Blank(s) == s \in {"", " ", "  "}

WellFormedTask(t) ==
    /\ t # Nil
    /\ Deref(t).Name # ""
    /\ Deref(t).Path # Nil
    /\ LET p == Deref(Deref(t).Path) IN
       /\ p.Include # Nil
       /\ Len(Deref(p.Include)) > 0
       /\ \A k \in DOMAIN Deref(p.Include) : ~Blank(Deref(p.Include)[k])
       /\ \A k \in DOMAIN p.Exclude : ~Blank(p.Exclude[k])

WellFormedFile(f) ==
    /\ f # Nil
    /\ Len(Deref(f).Type) > 0
    /\ Deref(f).Parse # Nil
    /\ Deref(Deref(f).Parse).Comment # Nil
    /\ LET c == Deref(Deref(Deref(f).Parse).Comment) IN
       \/ c.Line # "" /\ c.Block = Nil
       \/ c.Block # Nil /\ Deref(c.Block).Start # "" /\ Deref(c.Block).End # ""
    /\ Deref(f).Modify # Nil =>
         LET m == Deref(Deref(f).Modify) IN
         /\ \A k \in DOMAIN m.Plugin : m.Plugin[k] # Nil /\ Deref(m.Plugin[k]).Path # ""
         /\ \A k \in DOMAIN m.Regex : m.Regex[k] # Nil /\ Deref(m.Regex[k]).Find # ""

WellFormedScript(s, c) ==
    /\ s # Nil
    /\ Deref(s).Name # ""
    /\ LET refs == Deref(s).Task IN
       /\ Len(refs) > 0
       /\ \A j, k \in DOMAIN refs : j # k => refs[j] # refs[k]
       /\ \A k \in DOMAIN refs :
            \E i \in DOMAIN c.Task : c.Task[i] # Nil /\ Deref(c.Task[i]).Name = refs[k]

WellFormed(c) ==
    /\ Len(c.Task) >= 1 /\ Len(c.File) >= 1
    /\ \A i \in DOMAIN c.Task : WellFormedTask(c.Task[i])
    /\ \A i \in DOMAIN c.File : WellFormedFile(c.File[i])
    /\ \A i \in DOMAIN c.Script : WellFormedScript(c.Script[i], c)

\* C4: Validate reports no false problem: called on a Configuration with at
\* least one Task and one File whose every Task, File and Script is well
\* formed, it returns the empty error sequence.
C4_NoFalseProblem ==
    [][ (ret'.op = "Validate" /\ WellFormed(cfg)) =>
            (ret'.err = "nil" /\ ret'.errors = << >>) ]_vars

\* C4's case: the end-to-end example, one task, one file with a line
\* comment, one script that names the task, validated with zero errors
C4_Witness ==
    /\ ValidateReturned /\ ret.errors = << >>
    /\ cfg.Task = << Ptr(GoodTask("a")) >>
    /\ cfg.File = << Ptr(GoodFile) >>
    /\ cfg.Script = << Ptr(Script("s", << "a" >>)) >>

\* the reference occurrences <<script, position>> of a Configuration without
\* nil scripts
Occurrences(c) ==
    UNION { { << i, k >> : k \in DOMAIN Deref(c.Script[i]).Task } : i \in DOMAIN c.Script }

RefAt(c, ik) == Deref(c.Script[ik[1]]).Task[ik[2]]

Repeated(c, ik) == \E j \in 1..(ik[2] - 1) : RefAt(c, << ik[1], j >>) = RefAt(c, ik)

Unresolved(c, ik) ==
    ~\E i \in DOMAIN c.Task : c.Task[i] # Nil /\ Deref(c.Task[i]).Name = RefAt(c, ik)

ScriptNames(c) == { Deref(c.Script[i]).Name : i \in DOMAIN c.Script }

Range(f) == { f[k] : k \in DOMAIN f }

\* C5: Script validation emits one "duplicate task definition" error for
\* each occurrence of a reference that equals a reference at an earlier
\* position of the same Script and none for a first occurrence, so a Script
\* gets as many duplicate errors as its list length minus its number of
\* distinct references.
C5_DuplicateReferences ==
    ValidateReturned =>
        /\ \A n \in ScriptNames(cfg), r \in Refs :
             CountError(ret.errors, Errorf(ErrDuplicateTask, n, NoIdx, r))
               = Cardinality({ ik \in Occurrences(cfg) :
                                 /\ Deref(cfg.Script[ik[1]]).Name = n
                                 /\ RefAt(cfg, ik) = r
                                 /\ Repeated(cfg, ik) })
        /\ CountKind(ret.errors, ErrDuplicateTask)
             = Cardinality({ ik \in Occurrences(cfg) : Repeated(cfg, ik) })
        /\ Len(cfg.Script) = 1 =>
             CountKind(ret.errors, ErrDuplicateTask)
               = Len(Deref(cfg.Script[1]).Task) - Cardinality(Range(Deref(cfg.Script[1]).Task))

\* C5's case: Script{Task: ["a", "a"]} against a Task list that has "a":
\* one duplicate error, no unknown-reference error
C5_Witness ==
    /\ ValidateReturned
    /\ cfg.Task = << Ptr(GoodTask("a")) >>
    /\ cfg.Script = << Ptr(Script("s", << "a", "a" >>)) >>
    /\ CountError(ret.errors, Errorf(ErrDuplicateTask, "s", NoIdx, "a")) = 1
    /\ CountKind(ret.errors, ErrUnknownTask) = 0
    /\ Len(ret.errors) = 1

\* C6: Script validation emits one "unknown task definition" error for each
\* reference occurrence that names no Task of the Configuration and none for
\* a reference that resolves, whether or not the occurrence is a duplicate.
C6_UnknownReferences ==
    ValidateReturned =>
        /\ \A n \in ScriptNames(cfg), r \in Refs :
             CountError(ret.errors, Errorf(ErrUnknownTask, n, NoIdx, r))
               = Cardinality({ ik \in Occurrences(cfg) :
                                 /\ Deref(cfg.Script[ik[1]]).Name = n
                                 /\ RefAt(cfg, ik) = r
                                 /\ Unresolved(cfg, ik) })
        /\ CountKind(ret.errors, ErrUnknownTask)
             = Cardinality({ ik \in Occurrences(cfg) : Unresolved(cfg, ik) })

\* C6's case: Script{Task: ["no", "no"]}: two unknown-reference errors and
\* one duplicate error
C6_Witness ==
    /\ ValidateReturned
    /\ cfg.Script = << Ptr(Script("s", << "no", "no" >>)) >>
    /\ CountError(ret.errors, Errorf(ErrUnknownTask, "s", NoIdx, "no")) = 2
    /\ CountError(ret.errors, Errorf(ErrDuplicateTask, "s", NoIdx, "no")) = 1

\* the files of a Configuration without nil files whose Parse has a Comment
\* with a Block marker
HasBlock(f) ==
    /\ Deref(f).Parse # Nil
    /\ Deref(Deref(f).Parse).Comment # Nil
    /\ Deref(Deref(Deref(f).Parse).Comment).Block # Nil

BlockOf(f) == Deref(Deref(Deref(Deref(f).Parse).Comment).Block)

TypeLabels(c) == { Join(Deref(c.File[i]).Type, ",") : i \in DOMAIN c.File }

FilesLabelled(c, ty) == { i \in DOMAIN c.File : Join(Deref(c.File[i]).Type, ",") = ty }

\* C7: for a Parse whose Comment has a Block marker, Parse validation emits
\* the missing-start error exactly when Start is empty and the missing-end
\* error exactly when End is empty, each whatever the other and the Line
\* marker are, and no other parse error.
C7_BlockComment ==
    ValidateReturned =>
        \A ty \in TypeLabels(cfg) :
            /\ CountError(ret.errors, Errorf(ErrBlockStart, ty, NoIdx, NoRef))
                 = Cardinality({ i \in FilesLabelled(cfg, ty) :
                       HasBlock(cfg.File[i]) /\ BlockOf(cfg.File[i]).Start = "" })
            /\ CountError(ret.errors, Errorf(ErrBlockEnd, ty, NoIdx, NoRef))
                 = Cardinality({ i \in FilesLabelled(cfg, ty) :
                       HasBlock(cfg.File[i]) /\ BlockOf(cfg.File[i]).End = "" })
            /\ (\A i \in FilesLabelled(cfg, ty) : HasBlock(cfg.File[i])) =>
                 /\ ~HasError(ret.errors, Errorf(ErrParse, ty, NoIdx, NoRef))
                 /\ ~HasError(ret.errors, Errorf(ErrParseComment, ty, NoIdx, NoRef))

\* C7's case: Parse{Comment: {Block: {Start: "/*"}}}, End omitted: exactly
\* one error, the missing-end one
C7_Witness ==
    /\ ValidateReturned
    /\ Len(cfg.File) = 1
    /\ Deref(cfg.File[1]).Parse = Ptr(Parse(Ptr(Comment("", Ptr(CommentBlock("/*", "")))), TRUE))
    /\ Deref(cfg.File[1]).Type = << "go", "md" >>
    /\ ret.errors = << Errorf(ErrBlockEnd, "go,md", NoIdx, NoRef) >>

\* C8: Load reports failure: a missing or unreadable document gives an I/O
\* error, content that is not well-formed JSON gives a non-nil parse error,
\* and Load returns nil only when the content was deserialized into the
\* Configuration.
C8_LoadReportsFailure ==
    ret.op = "Load" =>
        /\ doc.status \in {"missing", "unreadable"} => ret.err = "io"
        /\ doc.status = "malformed" => ret.err # "nil"
        /\ ret.err = "nil" => (doc.status = "ok" /\ cfg = Unmarshal(doc.content))

\* the lowest position of an entry named name, NotFound when there is none
FirstMatch(entries, name) ==
    LET M == { i \in DOMAIN entries : entries[i] # Nil /\ Deref(entries[i]).Name = name }
    IN IF M = {} THEN NotFound ELSE CHOOSE i \in M : \A j \in M : i <= j

\* C9: for every Configuration and name, FindTask returns the Task at the
\* lowest index whose Name equals the name exactly and nil exactly when no
\* Task has that Name; FindScript does the same over the Scripts; neither
\* changes the Configuration nor fails.
C9_LookupFirstMatch ==
    [][ /\ ret'.op = "FindTask" =>
             (ret'.err = "nil" /\ ret'.found = FirstMatch(cfg.Task, ret'.arg) /\ cfg' = cfg)
        /\ ret'.op = "FindScript" =>
             (ret'.err = "nil" /\ ret'.found = FirstMatch(cfg.Script, ret'.arg) /\ cfg' = cfg)
      ]_vars

TaskErrorKinds == { ErrTaskName, ErrTaskInclude, ErrIncludeEmpty, ErrExcludeEmpty, ErrTaskPath }

\* C10: for every Task whose Path is present, an Include without any
\* non-blank entry (absent, of length zero, or all entries blank) makes
\* Validate report at least one error for that Task, and every blank Include
\* or Exclude entry is reported with its 0-based index.
C10_IncludeRequired ==
    ValidateReturned =>
        \A i \in DOMAIN cfg.Task :
            LET t == Deref(cfg.Task[i]) IN
            t.Path # Nil =>
                LET p == Deref(t.Path)
                    include == IF p.Include = Nil THEN << >> ELSE Deref(p.Include)
                IN /\ (\A k \in DOMAIN include : Blank(include[k])) =>
                         \E e \in DOMAIN ret.errors :
                             ret.errors[e].name = t.Name /\ ret.errors[e].kind \in TaskErrorKinds
                   /\ \A k \in DOMAIN include : Blank(include[k]) =>
                         HasError(ret.errors, Errorf(ErrIncludeEmpty, t.Name, k - 1, NoRef))
                   /\ \A k \in DOMAIN p.Exclude : Blank(p.Exclude[k]) =>
                         HasError(ret.errors, Errorf(ErrExcludeEmpty, t.Name, k - 1, NoRef))

\* a name as Validate leaves it: kept when it was given, a non-empty
\* placeholder when it was empty
NameDefaulted(before, after) ==
    IF before = "" THEN after # "" ELSE after = before

\* a type set as Validate leaves it: kept when it had entries, one non-empty
\* placeholder label when it was empty
TypeDefaulted(before, after) ==
    IF Len(before) = 0
    THEN Len(after) > 0 /\ \A k \in DOMAIN after : after[k] # ""
    ELSE after = before

\* the Configuration after differs from the Configuration before by
\* placeholder assignment only
OnlyPlaceholdersAssigned(before, after) ==
    /\ after.Name = before.Name
    /\ Len(after.Task) = Len(before.Task)
    /\ Len(after.Script) = Len(before.Script)
    /\ Len(after.File) = Len(before.File)
    /\ \A i \in DOMAIN before.Task :
         /\ before.Task[i] # Nil /\ after.Task[i] # Nil
         /\ Deref(after.Task[i]).Path = Deref(before.Task[i]).Path
         /\ NameDefaulted(Deref(before.Task[i]).Name, Deref(after.Task[i]).Name)
    /\ \A i \in DOMAIN before.Script :
         /\ before.Script[i] # Nil /\ after.Script[i] # Nil
         /\ Deref(after.Script[i]).Task = Deref(before.Script[i]).Task
         /\ NameDefaulted(Deref(before.Script[i]).Name, Deref(after.Script[i]).Name)
    /\ \A i \in DOMAIN before.File :
         /\ before.File[i] # Nil /\ after.File[i] # Nil
         /\ Deref(after.File[i]).Parse = Deref(before.File[i]).Parse
         /\ Deref(after.File[i]).Modify = Deref(before.File[i]).Modify
         /\ TypeDefaulted(Deref(before.File[i]).Type, Deref(after.File[i]).Type)

\* C11: Validate's only effect on the instance is placeholder assignment:
\* when Validate returns, each Task and Script whose Name was empty at the
\* call and each File whose Type set was empty holds a non-empty
\* placeholder, and every other field of the Configuration (metadata, the
\* length and order of the sequences, given names and types, Path patterns,
\* Script references, Parse and Modify) is as it was at the call.
C11_OnlyPlaceholdersAssigned ==
    [][ (ret'.op = "Validate" /\ ret'.err = "nil") =>
            OnlyPlaceholdersAssigned(cfg, cfg') ]_vars

\* C11's case: Validate returned for a Configuration with an anonymous Task,
\* an untyped File and an anonymous Script beside named ones; each got its
\* placeholder and its error
C11_Witness ==
    /\ ValidateReturned
    /\ cfg.Name = "emits"
    /\ Len(cfg.Task) = 2 /\ Len(cfg.File) = 2 /\ Len(cfg.Script) = 2
    /\ Deref(cfg.Task[1]) = GoodTask("a")
    /\ Deref(cfg.Task[2]).Name \in Placeholders /\ Deref(cfg.Task[2]).Path = Nil
    /\ Deref(cfg.File[1]) = GoodFile
    /\ Len(Deref(cfg.File[2]).Type) = 1 /\ Deref(cfg.File[2]).Type[1] \in Placeholders
    /\ Deref(cfg.Script[1]).Name \in Placeholders /\ Deref(cfg.Script[1]).Task = << "a" >>
    /\ CountKind(ret.errors, ErrTaskName) = 1
    /\ CountKind(ret.errors, ErrFileType) = 1
    /\ CountKind(ret.errors, ErrScriptName) = 2

====
